---- MODULE Spec2Model ----
(***************************************************************************)
(* Model of the audio-processing job pipeline of the summarizer API:       *)
(*   api/src/services/processor.ts  (ProcessorService: registry, queue,    *)
(*                                   worker loop, pipeline stages)         *)
(*   api/src/routes/upload.ts       (upload / cancel route handlers)       *)
(*                                                                         *)
(* Granularity.  Node runs every handler to its next await without         *)
(* interleaving, so one action is one synchronous segment: a route handler *)
(* together with everything it calls synchronously (createJob starts       *)
(* processQueue, which runs processJob up to its first awaited stage), or  *)
(* the worker's resumption after one awaited stage up to the next await.   *)
(* External tools and services answer nondeterministically.                *)
(***************************************************************************)
EXTENDS Integers, Sequences, FiniteSets, TLC

\* ---------------------------------------------------------------- bounds
MaxJobs == 2

JobIds == 1..MaxJobs
\* authenticated users; the code only ever compares user ids for equality, and
\* the pipeline never reads them, so jobs are uploaded by one of the two while
\* both may call the other routes
Users == {"u1", "u2"}
Uploaders == {"u1"}
UploadTypes == {"file", "url"}
\* Time: jobs are created at distinct, increasing instants, so createdAt is
\* represented by the creation rank; cleanupOldJobs compares createdAt with
\* the cutoff now - maxAgeMs, which may fall anywhere.
Cutoffs == 1..(MaxJobs + 1)

\* ------------------------------------------------------- program strings
Undefined == "undefined"
CancelledMsg == "Cancelled by user"
UrlNotImplementedMsg == "URL download not implemented yet"
NoSourceMsg == "No valid audio source provided"
NoMetadataMsg == "Unable to read audio metadata"
TranscriptionFailedMsg == "Transcription failed: service error"
SummarizationFailedMsg == "Summarization failed: service error"

Stages == {"download", "probe", "normalize", "transcribe", "summarize", "store"}
ProbeOutcomes == {"ok", "noduration", "error"}
Terminal == {"completed", "failed"}

VARIABLES
    jobs,          \* ProcessorService.jobs: Map jobId -> ProcessingJob
    jobQueue,      \* ProcessorService.jobQueue
    isProcessing,  \* ProcessorService.isProcessing
    w,             \* the processQueue/processJob activation: position and locals
    nextId,        \* number of ids handed out by generateJobId
    files,         \* jobs whose '_processed.wav' exists on disk
    stored,        \* summaries handed to storeSummary, in order
    calls,         \* per job and stage: how often the stage was invoked
    raised,        \* per job: message of the error its pipeline raised
    cancelled,     \* per job: status it had when cancelJob accepted it
    summaries,     \* the 'summaries' Map of the summaries routes
    fn             \* a helper function under evaluation: name, arguments, result

vars == <<jobs, jobQueue, isProcessing, w, nextId, files, stored,
          calls, raised, cancelled, summaries, fn>>

NoCall == [name |-> "none"]

Idle == [pc |-> "idle", job |-> 0, userId |-> Undefined, processed |-> FALSE]

Has(js, id) == id \in DOMAIN js
StatusOf(id) == IF Has(jobs, id) THEN jobs[id].status ELSE "absent"

\* ProcessorService.updateJob: merge the updates when the job is registered
UpdateJob(js, id, updates) ==
    IF Has(js, id)
    THEN [js EXCEPT ![id] =
            [f \in DOMAIN js[id] |->
                IF f \in DOMAIN updates THEN updates[f] ELSE js[id][f]]]
    ELSE js

Init ==
    /\ jobs = << >>
    /\ jobQueue = << >>
    /\ isProcessing = FALSE
    /\ w = Idle
    /\ nextId = 0
    /\ files = {}
    /\ stored = << >>
    /\ calls = [j \in JobIds |-> [s \in Stages |-> 0]]
    /\ raised = [j \in JobIds |-> Undefined]
    /\ cancelled = [j \in JobIds |-> "no"]
    /\ summaries = {}
    /\ fn = NoCall

\* ------------------------------------------------------------ processJob
\* processJob, line 122: the first write of the pipeline
StartUpdates == [status |-> "processing", progress |-> 0]

\* variant: the final write forgets the status
CompletedUpdatesNoStatus == [progress |-> 100, completedAt |-> TRUE]

\* variant: the final write leaves the progress at 90
CompletedUpdatesNoProgress == [status |-> "completed", completedAt |-> TRUE]

\* processJob, lines 217-221: the last write of the success path
CompletedUpdates == [status |-> "completed", progress |-> 100, completedAt |-> TRUE]

\* processJob, lines 230-236: the catch block of the pipeline
CatchUpdates(msg) == [status |-> "failed", error |-> msg]

\* variant: the download is implemented and returns a local path
DownloadAudioFromUrlDone == [ok |-> TRUE, msg |-> Undefined]

\* downloadAudioFromUrl: a placeholder that always throws
DownloadAudioFromUrl == [ok |-> FALSE, msg |-> UrlNotImplementedMsg]

\* getAudioMetadata: null when the tool (or stat) throws; otherwise a record,
\* with duration 0 when the tool's output holds no 'Duration:' line
GetAudioMetadata(out) ==
    IF out = "error" THEN [null |-> TRUE, duration |-> 0]
    ELSE [null |-> FALSE, duration |-> IF out = "ok" THEN 1 ELSE 0]

\* processAudio: the output path when the tool succeeds, the input path when
\* it throws ("in" stands for audioFilePath, "out" for '<name>_processed.wav')
ProcessAudio(ok) == IF ok THEN "out" ELSE "in"

\* The state a pipeline segment reads and writes, passed as a record c with
\* fields jobs, jobQueue, isProcessing, w, nextId, files, stored, calls,
\* raised, summaries.
Call(c, id, stage) ==
    [c EXCEPT !.calls[id][stage] = @ + 1]

\* variant: the error also escapes processJob and ends processQueue through
\* its 'finally', leaving the queue as it is
CatchRethrow(c, id, msg) ==
    [c EXCEPT !.jobs = UpdateJob(c.jobs, id, CatchUpdates(msg)),
              !.raised[id] = msg,
              !.isProcessing = FALSE,
              !.w = Idle]

\* variant: the catch block puts the failed job back at the end of the queue
CatchRetry(c, id, msg) ==
    [c EXCEPT !.jobs = UpdateJob(c.jobs, id, CatchUpdates(msg)),
              !.raised[id] = msg,
              !.jobQueue = Append(c.jobQueue, id),
              !.w = [Idle EXCEPT !.pc = "loop"]]

\* catch (error) { updateJob(failed, message) }, then processJob returns
Catch(c, id, msg) ==
    [c EXCEPT !.jobs = UpdateJob(c.jobs, id, CatchUpdates(msg)),
              !.raised[id] = msg,
              !.w = [Idle EXCEPT !.pc = "loop"]]

\* processJob from its entry to its first await (lines 115-141)
ProcessJobStart(c, id) ==
    IF ~Has(c.jobs, id)
    THEN [c EXCEPT !.w = [Idle EXCEPT !.pc = "loop"]]
    ELSE LET job == c.jobs[id]
             c1  == [c EXCEPT !.jobs = UpdateJob(c.jobs, id, StartUpdates)]
             loc == [Idle EXCEPT !.job = id, !.userId = job.userId]
         IN  IF job.type = "file" /\ job.source
             THEN [Call(c1, id, "probe") EXCEPT
                      !.jobs = UpdateJob(c1.jobs, id, [progress |-> 10]),
                      !.w = [loc EXCEPT !.pc = "probe"]]
             ELSE IF job.type = "url" /\ job.source
             THEN [Call(c1, id, "download") EXCEPT
                      !.w = [loc EXCEPT !.pc = "download"]]
             ELSE Catch(c1, id, NoSourceMsg)

\* resumption after 'await this.downloadAudioFromUrl' (lines 133-138)
AfterDownload(c, id) ==
    IF DownloadAudioFromUrl.ok
    THEN [Call(c, id, "probe") EXCEPT
             !.jobs = UpdateJob(c.jobs, id, [progress |-> 20]),
             !.w = [c.w EXCEPT !.pc = "probe"]]
    ELSE Catch(c, id, DownloadAudioFromUrl.msg)

\* variant: the progress written after the probe is mistyped
AfterProbeTypo(c, id, out) ==
    IF GetAudioMetadata(out).null
    THEN Catch(c, id, NoMetadataMsg)
    ELSE [Call(c, id, "normalize") EXCEPT
             !.jobs = UpdateJob(c.jobs, id, [progress |-> 3]),
             !.w = [c.w EXCEPT !.pc = "normalize"]]

\* resumption after 'await this.getAudioMetadata' (lines 141-151)
AfterProbe(c, id, out) ==
    IF GetAudioMetadata(out).null
    THEN Catch(c, id, NoMetadataMsg)
    ELSE [Call(c, id, "normalize") EXCEPT
             !.jobs = UpdateJob(c.jobs, id, [progress |-> 30]),
             !.w = [c.w EXCEPT !.pc = "normalize"]]

\* variant: a failure of the normalization tool is thrown to the catch block
AfterNormalizeThrows(c, id, ok) ==
    IF ~ok
    THEN Catch(c, id, "Audio processing failed")
    ELSE [Call(c, id, "transcribe") EXCEPT
             !.files = c.files \cup {id},
             !.jobs = UpdateJob(c.jobs, id, [progress |-> 50]),
             !.w = [c.w EXCEPT !.pc = "transcribe", !.processed = TRUE]]

\* resumption after 'await this.processAudio' (lines 148-159)
AfterNormalize(c, id, ok) ==
    [Call(c, id, "transcribe") EXCEPT
        !.files = IF ok THEN c.files \cup {id} ELSE c.files,
        !.jobs = UpdateJob(c.jobs, id, [progress |-> 50]),
        !.w = [c.w EXCEPT !.pc = "transcribe",
                          !.processed = (ProcessAudio(ok) # "in")]]

\* variant: the summary is assembled and handed on without the
\* summarization stage
AfterTranscribeSkips(c, id, ok) ==
    IF ~ok
    THEN Catch(c, id, TranscriptionFailedMsg)
    ELSE LET c1 == [c EXCEPT !.jobs = UpdateJob(c.jobs, id, [progress |-> 90])]
         IN  [Call(c1, id, "store") EXCEPT
                 !.stored = Append(c.stored,
                              [jobId |-> id, userId |-> c.w.userId,
                               jobStatus |-> IF Has(c.jobs, id) THEN c.jobs[id].status
                                             ELSE "absent"]),
                 !.w = [c.w EXCEPT !.pc = "store"]]

\* resumption after 'await openaiService.transcribeAudio' (lines 156-171)
AfterTranscribe(c, id, ok) ==
    IF ~ok
    THEN Catch(c, id, TranscriptionFailedMsg)
    ELSE [Call(c, id, "summarize") EXCEPT
             !.jobs = UpdateJob(c.jobs, id, [progress |-> 70]),
             !.w = [c.w EXCEPT !.pc = "summarize"]]

\* storeSummary as called at line 206: the summary leaves the pipeline
StoreSummary(c, id) ==
    [Call(c, id, "store") EXCEPT
        !.stored = Append(c.stored,
                     [jobId |-> id, userId |-> c.w.userId,
                      jobStatus |-> IF Has(c.jobs, id) THEN c.jobs[id].status
                                    ELSE "absent"])]

\* resumption after 'await openaiService.generateSummary' (lines 163-206)
AfterSummarize(c, id, ok) ==
    IF ~ok
    THEN Catch(c, id, SummarizationFailedMsg)
    ELSE LET c1 == [c EXCEPT !.jobs = UpdateJob(c.jobs, id, [progress |-> 90])]
         IN  [StoreSummary(c1, id) EXCEPT !.w = [c.w EXCEPT !.pc = "store"]]

\* temporary-file cleanup of the success path (lines 209-214); shouldCleanup
\* is only set on the url branch, whose download never returns a path
CleanupTempFiles(c, id) ==
    IF c.w.processed THEN c.files \ {id} ELSE c.files

\* resumption after 'await this.storeSummary' (lines 208-221)
AfterStore(c, id) ==
    [c EXCEPT !.files = CleanupTempFiles(c, id),
              !.jobs = UpdateJob(c.jobs, id, CompletedUpdates),
              !.w = [Idle EXCEPT !.pc = "loop"]]

\* ---------------------------------------------------------- processQueue
\* variant: leaving the loop does not reset isProcessing
ProcessQueueLoopNoFinally(c) ==
    IF Len(c.jobQueue) > 0
    THEN ProcessJobStart([c EXCEPT !.jobQueue = Tail(c.jobQueue)], Head(c.jobQueue))
    ELSE [c EXCEPT !.w = Idle]

\* variant: the loop is an 'if', so processQueue returns after one job
ProcessQueueLoopOnce(c) ==
    IF Len(c.jobQueue) > 0 /\ c.w.pc # "loop"
    THEN ProcessJobStart([c EXCEPT !.jobQueue = Tail(c.jobQueue)], Head(c.jobQueue))
    ELSE [c EXCEPT !.isProcessing = FALSE, !.w = Idle]

\* the head of 'while (this.jobQueue.length > 0)': shift and run the next job
\* up to its first await, or leave the loop through 'finally'
ProcessQueueLoop(c) ==
    IF Len(c.jobQueue) > 0
    THEN ProcessJobStart([c EXCEPT !.jobQueue = Tail(c.jobQueue)], Head(c.jobQueue))
    ELSE [c EXCEPT !.isProcessing = FALSE, !.w = Idle]

\* processQueue from its entry (lines 85-98)
ProcessQueue(c) ==
    IF c.isProcessing \/ Len(c.jobQueue) = 0
    THEN c
    ELSE ProcessQueueLoop([c EXCEPT !.isProcessing = TRUE])

\* ------------------------------------------------------------- registry
\* the record createJob builds (lines 32-43)
NewJob(user, type, present, t) ==
    [userId |-> user, type |-> type, source |-> present,
     status |-> "queued", progress |-> 0, error |-> Undefined,
     createdAt |-> t, completedAt |-> FALSE]

\* generateJobId: ids are taken to be unique, the k-th call returns k
GenerateJobId(c) == c.nextId + 1

\* variant: createJob starts the new job at once, whatever the worker does
CreateJobStartsNow(c, user, type, present, t) ==
    LET id == GenerateJobId(c)
        c1 == [c EXCEPT !.nextId = id,
                        !.jobs = (id :> NewJob(user, type, present, t)) @@ c.jobs,
                        !.jobQueue = Append(c.jobQueue, id)]
    IN  ProcessQueueLoop([c1 EXCEPT !.isProcessing = TRUE])

\* createJob (lines 29-62); the job it returns is the registered object
CreateJob(c, user, type, present, t) ==
    LET id == GenerateJobId(c)
        c1 == [c EXCEPT !.nextId = id,
                        !.jobs = (id :> NewJob(user, type, present, t)) @@ c.jobs,
                        !.jobQueue = Append(c.jobQueue, id)]
    IN  IF ~c1.isProcessing THEN ProcessQueue(c1) ELSE c1

\* this.jobQueue.indexOf(jobId) / splice(queueIndex, 1)
RemoveFirst(q, id) ==
    IF \E i \in 1..Len(q) : q[i] = id
    THEN LET k == CHOOSE i \in 1..Len(q) : q[i] = id /\ \A m \in 1..(i-1) : q[m] # id
         IN  SubSeq(q, 1, k-1) \o SubSeq(q, k+1, Len(q))
    ELSE q

\* variant: the queued job is marked failed but left in the queue
CancelJobNoSplice(c, id) ==
    IF ~Has(c.jobs, id) \/ c.jobs[id].status = "completed" \/ c.jobs[id].status = "failed"
    THEN [ret |-> FALSE, c |-> c]
    ELSE [ret |-> TRUE,
          c |-> [c EXCEPT !.jobs = UpdateJob(c.jobs, id,
                                     [status |-> "failed", error |-> CancelledMsg])]]

\* variant: cancelling the job in flight also abandons its pipeline
CancelJobPreempt(c, id) ==
    IF ~Has(c.jobs, id) \/ c.jobs[id].status = "completed" \/ c.jobs[id].status = "failed"
    THEN [ret |-> FALSE, c |-> c]
    ELSE LET q == IF c.jobs[id].status = "queued"
                  THEN RemoveFirst(c.jobQueue, id) ELSE c.jobQueue
         IN  [ret |-> TRUE,
              c |-> [c EXCEPT !.jobQueue = q,
                              !.w = IF c.jobs[id].status = "processing"
                                    THEN [Idle EXCEPT !.pc = "loop"] ELSE c.w,
                              !.jobs = UpdateJob(c.jobs, id,
                                         [status |-> "failed", error |-> CancelledMsg])]]

\* variant: only completed jobs are refused
CancelJobFailedAgain(c, id) ==
    IF ~Has(c.jobs, id) \/ c.jobs[id].status = "completed"
    THEN [ret |-> FALSE, c |-> c]
    ELSE LET q == IF c.jobs[id].status = "queued"
                  THEN RemoveFirst(c.jobQueue, id) ELSE c.jobQueue
         IN  [ret |-> TRUE,
              c |-> [c EXCEPT !.jobQueue = q,
                              !.jobs = UpdateJob(c.jobs, id,
                                         [status |-> "failed", error |-> CancelledMsg])]]

\* variant: only failed jobs are refused
CancelJobCompletedAgain(c, id) ==
    IF ~Has(c.jobs, id) \/ c.jobs[id].status = "failed"
    THEN [ret |-> FALSE, c |-> c]
    ELSE LET q == IF c.jobs[id].status = "queued"
                  THEN RemoveFirst(c.jobQueue, id) ELSE c.jobQueue
         IN  [ret |-> TRUE,
              c |-> [c EXCEPT !.jobQueue = q,
                              !.jobs = UpdateJob(c.jobs, id,
                                         [status |-> "failed", error |-> CancelledMsg])]]

\* variant: cancelling also resets the progress
CancelJobResetsProgress(c, id) ==
    IF ~Has(c.jobs, id) \/ c.jobs[id].status = "completed" \/ c.jobs[id].status = "failed"
    THEN [ret |-> FALSE, c |-> c]
    ELSE LET q == IF c.jobs[id].status = "queued"
                  THEN RemoveFirst(c.jobQueue, id) ELSE c.jobQueue
         IN  [ret |-> TRUE,
              c |-> [c EXCEPT !.jobQueue = q,
                              !.jobs = UpdateJob(c.jobs, id,
                                         [status |-> "failed", error |-> CancelledMsg,
                                          progress |-> 0])]]

\* cancelJob (lines 424-442): its return value and the state it leaves
CancelJob(c, id) ==
    IF ~Has(c.jobs, id) \/ c.jobs[id].status = "completed" \/ c.jobs[id].status = "failed"
    THEN [ret |-> FALSE, c |-> c]
    ELSE LET q == IF c.jobs[id].status = "queued"
                  THEN RemoveFirst(c.jobQueue, id) ELSE c.jobQueue
         IN  [ret |-> TRUE,
              c |-> [c EXCEPT !.jobQueue = q,
                              !.jobs = UpdateJob(c.jobs, id,
                                         [status |-> "failed", error |-> CancelledMsg])]]

\* cleanupOldJobs (lines 385-402): the registry it leaves
\* 'now - createdAt > maxAgeMs' is 'cutoff > createdAt', cutoff = now - maxAgeMs
CleanupOldJobs(js, cutoff) ==
    [j \in {k \in DOMAIN js : ~(cutoff > js[k].createdAt)} |-> js[j]]

\* --------------------------------------------------------------- routes
\* DELETE /api/upload/cancel/:jobId (upload.ts lines 226-298): status code
CancelRouteCode(c, user, id) ==
    IF ~Has(c.jobs, id) THEN 404
    ELSE IF c.jobs[id].userId # user THEN 403
    ELSE IF ~CancelJob(c, id).ret THEN 400
    ELSE 200

\* ------------------------------------------------------ generateSummary
MaxChapters == 2

DetailLevels == {"brief", "standard", "deep"}

\* a chapter of the service response; a field the response leaves out is
\* Undefined (title) or 0 (start, which 'chapter.start || 0' maps to 0 anyway)
RawChapters == [title : {Undefined, "Intro"}, start : {0, 120}]
RawChapterLists == UNION {[1..n -> RawChapters] : n \in 0..MaxChapters}
RawChapterFields == {[has |-> FALSE]} \cup [has : {TRUE}, list : RawChapterLists]

\* completion.choices[0].message.content by what JSON.parse makes of it:
\* "empty" is null or '', "notjson" does not parse, "null" parses to null,
\* "scalar" parses to a number, string, boolean or array, "object" to an
\* object with or without the fields read below
Contents ==
    {[kind |-> k] : k \in {"empty", "notjson", "null", "scalar"}}
       \cup [kind : {"object"}, overview : {Undefined, "Overview"},
             chapters : RawChapterFields]

\* the request to the chat service throws, or resolves with a content
Completions == {[error |-> TRUE]} \cup [error : {FALSE}, content : Contents]

SummaryOptions == [detail : DetailLevels, timestamps : BOOLEAN]

\* processChapters (lines 243-251)
ProcessChapters(chapters) ==
    [i \in 1..Len(chapters) |->
        [title |-> IF chapters[i].title = Undefined THEN "" ELSE chapters[i].title,
         start |-> chapters[i].start]]

\* what 'parsedResponse.<field>' reads: a number, string, boolean or array
\* has none of the fields, so every read is undefined
ParsedFields(content) ==
    IF content.kind = "object"
    THEN [overview |-> content.overview, chapters |-> content.chapters]
    ELSE [overview |-> Undefined, chapters |-> [has |-> FALSE]]

\* variant: the chapters of the response are processed whatever the option
GenerateSummaryChapters(options, completion) ==
    IF completion.error
    THEN [ok |-> FALSE, msg |-> SummarizationFailedMsg]
    ELSE IF completion.content.kind = "empty"
    THEN [ok |-> FALSE, msg |-> "Summarization failed: No response content from OpenAI"]
    ELSE IF completion.content.kind = "notjson"
    THEN [ok |-> FALSE, msg |-> "Summarization failed: Invalid JSON response from OpenAI"]
    ELSE IF completion.content.kind = "null"
    THEN [ok |-> FALSE, msg |-> "Summarization failed: Cannot read properties of null"]
    ELSE LET parsed == ParsedFields(completion.content)
         IN  [ok |-> TRUE,
              response |->
                [overview |-> IF parsed.overview = Undefined THEN "" ELSE parsed.overview,
                 chapters |->
                    [defined |-> TRUE,
                     list |-> ProcessChapters(IF parsed.chapters.has
                                              THEN parsed.chapters.list ELSE <<>>)]]]

\* generateSummary (lines 100-167) from the resolution of the chat request:
\* every error is rethrown as 'Summarization failed: <cause>'
GenerateSummary(options, completion) ==
    IF completion.error
    THEN [ok |-> FALSE, msg |-> SummarizationFailedMsg]
    ELSE IF completion.content.kind = "empty"
    THEN [ok |-> FALSE, msg |-> "Summarization failed: No response content from OpenAI"]
    ELSE IF completion.content.kind = "notjson"
    THEN [ok |-> FALSE, msg |-> "Summarization failed: Invalid JSON response from OpenAI"]
    ELSE IF completion.content.kind = "null"
    THEN [ok |-> FALSE, msg |-> "Summarization failed: Cannot read properties of null"]
    ELSE LET parsed == ParsedFields(completion.content)
         IN  [ok |-> TRUE,
              response |->
                [overview |-> IF parsed.overview = Undefined THEN "" ELSE parsed.overview,
                 chapters |->
                    IF options.timestamps
                    THEN [defined |-> TRUE,
                          list |-> ProcessChapters(IF parsed.chapters.has
                                                   THEN parsed.chapters.list ELSE <<>>)]
                    ELSE [defined |-> FALSE]]]

\* processJob, lines 175-203: the Summary assembled from the response
FinalSummary(userId, jobId, summary) ==
    [userId |-> userId, jobId |-> jobId, overview |-> summary.overview,
     chapters |-> summary.chapters]

\* ---------------------------------------------------------------- actions
Ctx == [jobs |-> jobs, jobQueue |-> jobQueue, isProcessing |-> isProcessing,
        w |-> w, nextId |-> nextId, files |-> files, stored |-> stored,
        calls |-> calls, raised |-> raised, summaries |-> summaries]

Apply(c) ==
    /\ jobs' = c.jobs
    /\ jobQueue' = c.jobQueue
    /\ isProcessing' = c.isProcessing
    /\ w' = c.w
    /\ nextId' = c.nextId
    /\ files' = c.files
    /\ stored' = c.stored
    /\ calls' = c.calls
    /\ raised' = c.raised
    /\ summaries' = c.summaries
    /\ fn' = fn

\* POST /api/upload (upload.ts lines 57-143), for a request that passes
\* validation (a file for type 'file', a url for type 'url'); the handler
\* answers 400 without calling createJob otherwise.  The response carries
\* job.status as read when createJob has returned.
UploadResponse(c, id) ==
    [code |-> 202, jobId |-> id, status |-> c.jobs[id].status]

UploadRoute(user, type) ==
    /\ nextId < MaxJobs
    /\ Apply(CreateJob(Ctx, user, type, TRUE, nextId + 1))
    /\ UNCHANGED cancelled

\* DELETE /api/upload/cancel/:jobId
CancelRoute(user, id) ==
    LET code == CancelRouteCode(Ctx, user, id)
        r    == CancelJob(Ctx, id)
    IN  /\ code = 200
        /\ Apply(r.c)
        /\ cancelled' = [cancelled EXCEPT ![id] = jobs[id].status]

\* a call of cleanupOldJobs(maxAgeMs) that removes at least one job
CleanupOld(cutoff) ==
    /\ jobs' = CleanupOldJobs(jobs, cutoff)
    /\ jobs' # jobs
    /\ UNCHANGED <<jobQueue, isProcessing, w, nextId, files, stored,
                   calls, raised, cancelled, summaries, fn>>

\* the worker resumes after the awaited stage named by w.pc
WorkerFrame == UNCHANGED cancelled

DownloadDone ==
    /\ w.pc = "download"
    /\ Apply(AfterDownload(Ctx, w.job))
    /\ WorkerFrame

ProbeDone ==
    /\ w.pc = "probe"
    /\ \E out \in ProbeOutcomes : Apply(AfterProbe(Ctx, w.job, out))
    /\ WorkerFrame

NormalizeDone ==
    /\ w.pc = "normalize"
    /\ \E ok \in BOOLEAN : Apply(AfterNormalize(Ctx, w.job, ok))
    /\ WorkerFrame

TranscribeDone ==
    /\ w.pc = "transcribe"
    /\ \E ok \in BOOLEAN : Apply(AfterTranscribe(Ctx, w.job, ok))
    /\ WorkerFrame

SummarizeDone ==
    /\ w.pc = "summarize"
    /\ \E options \in SummaryOptions, completion \in Completions :
          Apply(AfterSummarize(Ctx, w.job, GenerateSummary(options, completion).ok))
    /\ WorkerFrame

StoreDone ==
    /\ w.pc = "store"
    /\ Apply(AfterStore(Ctx, w.job))
    /\ WorkerFrame

\* processJob has returned: back in the while loop of processQueue
LoopStep ==
    /\ w.pc = "loop"
    /\ Apply(ProcessQueueLoop(Ctx))
    /\ WorkerFrame

Worker ==
    \/ DownloadDone
    \/ ProbeDone
    \/ NormalizeDone
    \/ TranscribeDone
    \/ SummarizeDone
    \/ StoreDone
    \/ LoopStep

Next ==
    \/ \E u \in Uploaders, t \in UploadTypes : UploadRoute(u, t)
    \/ \E u \in Users, id \in JobIds : CancelRoute(u, id)
    \/ \E cutoff \in Cutoffs : CleanupOld(cutoff)
    \/ Worker

Spec == Init /\ [][Next]_vars

\* every awaited stage call eventually resolves or rejects, and the event
\* loop then resumes the worker
FairSpec == Spec /\ WF_vars(Worker)

TypeOK ==
    /\ DOMAIN jobs \subseteq JobIds
    /\ isProcessing \in BOOLEAN
    /\ nextId \in 0..MaxJobs
    /\ w.pc \in {"idle", "loop"} \cup Stages

\* ================================================================ claims
Registered == DOMAIN jobs
InQueue(id) == \E i \in 1..Len(jobQueue) : jobQueue[i] = id
Processing == {j \in Registered : jobs[j].status = "processing"}

\* C1: in every reachable state at most one registered job has status
\* 'processing'.
C1_AtMostOneProcessing == Cardinality(Processing) <= 1

\* a job is being processed while another one waits in the queue
C1_Witness ==
    /\ Cardinality(Processing) = 1
    /\ Len(jobQueue) > 0
    /\ w.pc \in Stages

\* C2 (as claimed): a job's status never changes from one terminal status to
\* the other.
C2_NeverBothTerminal ==
    [][\A j \in Registered \cap DOMAIN jobs' :
          /\ (jobs[j].status = "completed" => jobs'[j].status # "failed")
          /\ (jobs[j].status = "failed" => jobs'[j].status # "completed")]_vars

\* C3 (as claimed): no '_processed.wav' of a job exists while the job's
\* status is 'completed' or 'failed'.
C3_NoTempFilesWhenTerminal ==
    \A j \in files : j \in Registered => jobs[j].status \notin Terminal

\* C4 (as claimed): when createJob returns, the job it returns and the status
\* of the upload response are 'queued' with progress 0.
C4_CreatedJobIsQueued ==
    [][\A u \in Uploaders, t \in UploadTypes :
          UploadRoute(u, t) =>
             /\ jobs'[nextId'].status = "queued"
             /\ jobs'[nextId'].progress = 0
             /\ UploadResponse([jobs |-> jobs'], nextId').status = "queued"]_vars

\* C5: while a job's status is not terminal, no step lowers its progress, so
\* successive reads up to the first terminal one see non-decreasing values.
C5_ProgressMonotone ==
    [][\A j \in Registered \cap DOMAIN jobs' :
          jobs[j].status \notin Terminal =>
             jobs'[j].progress >= jobs[j].progress]_vars

\* a job read halfway through the pipeline, still not terminal
C5_Witness ==
    \E j \in Registered : jobs[j].status = "processing" /\ jobs[j].progress = 50

\* the worker has taken the job from the queue and run its first stage call
Started(id) == calls[id]["probe"] + calls[id]["download"] > 0
\* the worker has started the job and is through with it
Finished(id) == Started(id) /\ w.job # id

\* C6: a job whose stage raised an error is 'failed' with the raised message;
\* the worker keeps draining (a non-empty queue always has an active worker,
\* and an active worker eventually has emptied the queue and finished the job
\* in flight, so every queued id is dequeued); and the status a finished job ends with is decided by
\* whether its own pipeline raised, whatever happened to other jobs.
C6_FailureIsolation ==
    /\ [](\A j \in Registered :
            raised[j] # Undefined =>
               jobs[j].status = "failed" /\ jobs[j].error = raised[j])
    /\ [](Len(jobQueue) > 0 => isProcessing /\ w.pc # "idle")
    /\ [](\A j \in Registered :
            Finished(j) =>
               jobs[j].status = IF raised[j] # Undefined THEN "failed" ELSE "completed")
    /\ (w.pc # "idle") ~> (w.pc = "idle" /\ Len(jobQueue) = 0)

\* job a failed at a stage, and job b, queued behind it, was then processed
\* to completion
C6_Witness ==
    \E a, b \in Registered :
       /\ a < b
       /\ raised[a] = TranscriptionFailedMsg
       /\ jobs[a].status = "failed"
       /\ Finished(b)
       /\ jobs[b].status = "completed"

PipelineStages == Stages \ {"download"}

\* C7: cancelJob on a queued job returns true, takes the id out of the queue
\* and marks the job failed with 'Cancelled by user'; from then on the id is
\* never in the queue again, no stage is invoked for it, and its record (while
\* registered) stays failed with that error.
C7_CancelQueued ==
    /\ \A j \in Registered :
          jobs[j].status = "queued" =>
             LET r == CancelJob(Ctx, j)
             IN  /\ r.ret
                 /\ \A i \in 1..Len(r.c.jobQueue) : r.c.jobQueue[i] # j
                 /\ r.c.jobs[j].status = "failed"
                 /\ r.c.jobs[j].error = CancelledMsg
    /\ \A j \in JobIds :
          cancelled[j] = "queued" =>
             /\ ~InQueue(j)
             /\ w.job # j
             /\ \A s \in Stages : calls[j][s] = 0
             /\ j \in Registered =>
                   jobs[j].status = "failed" /\ jobs[j].error = CancelledMsg

\* a job was cancelled while queued, and the worker has since finished another
\* job and gone idle without touching it
C7_Witness ==
    \E j, k \in Registered :
       /\ cancelled[j] = "queued"
       /\ Finished(k)
       /\ w.pc = "idle"

\* C8: cancelJob on the job in flight returns true and marks it failed with
\* 'Cancelled by user' without touching the worker, the queue, the stage
\* calls, the files or the stored summaries; once the worker is through with
\* such a job, either one of its stages raised or every remaining stage was
\* called; a job only enters 'processing' when no stage of another job is in
\* flight, a queued id leaves the queue during a stage only by being
\* cancelled, and the worker leaves a job in flight only by returning to its
\* loop.
C8_CancelInFlight ==
  /\ [](\A j \in JobIds :
          (cancelled[j] = "processing" /\ Finished(j)) =>
             \/ raised[j] # Undefined
             \/ \A s \in PipelineStages : calls[j][s] = 1)
  /\
    [][/\ \A u \in Users, j \in JobIds :
             (StatusOf(j) = "processing" /\ CancelRoute(u, j)) =>
                /\ CancelJob(Ctx, j).ret
                /\ jobs'[j].status = "failed"
                /\ jobs'[j].error = CancelledMsg
                /\ jobs'[j].progress = jobs[j].progress
                /\ UNCHANGED <<w, jobQueue, isProcessing, calls, files, stored>>
       /\ w.pc \in Stages =>
             /\ w'.job = w.job \/ w'.pc = "loop"
             /\ \A j \in DOMAIN jobs' :
                   jobs'[j].status = "processing" => StatusOf(j) = "processing"
             /\ \A j \in JobIds :
                   (InQueue(j) /\ ~InQueue(j)') => cancelled'[j] = "queued"]_vars

\* a job cancelled in flight: the worker is still on one of its stages while
\* the next job waits in the queue
C8_Witness ==
    \E j \in Registered :
       /\ cancelled[j] = "processing"
       /\ jobs[j].status = "failed"
       /\ w.job = j
       /\ w.pc \in {"transcribe", "summarize", "store"}
       /\ Len(jobQueue) > 0

\* C9 (as claimed): cancelJob on a terminal job or an unknown id returns false
\* and changes nothing, and the cancel route answers 400.
C9_RejectedAnswers400 ==
    \A u \in Users, j \in JobIds :
       StatusOf(j) \in {"completed", "failed", "absent"} =>
          /\ ~CancelJob(Ctx, j).ret
          /\ CancelJob(Ctx, j).c = Ctx
          /\ CancelRouteCode(Ctx, u, j) = 400

\* C9 (amended): cancelJob on a terminal job or an unknown id returns false
\* and changes nothing; the cancel route answers 404 for an id not in the
\* registry, 403 for a caller who does not own the job, and 400 when the
\* owner cancels a terminal job.
C9_RejectedCancel ==
    \A u \in Users, j \in JobIds :
       StatusOf(j) \in {"completed", "failed", "absent"} =>
          /\ ~CancelJob(Ctx, j).ret
          /\ CancelJob(Ctx, j).c = Ctx
          /\ CancelRouteCode(Ctx, u, j) =
                IF j \notin Registered THEN 404
                ELSE IF jobs[j].userId # u THEN 403
                ELSE 400

\* the registry holds a terminal job (the owner's cancel is answered 400, the
\* other user's 403) and some id is not registered (answered 404)
C9_Witness ==
    \E j \in Registered, k \in JobIds :
       /\ jobs[j].status \in Terminal
       /\ k \notin Registered

\* C10: a url job keeps progress 0, is never completed and never causes a
\* probe, normalization, transcription, summarization or storage call; once
\* the worker is through with it, it is failed with the message of the
\* missing download; its status only moves queued -> processing -> failed
\* (a cancelled one may go queued -> failed); and every registered url job is
\* eventually failed.
C10_UrlJobFails ==
    /\ [](\A j \in Registered :
            jobs[j].type = "url" =>
               /\ jobs[j].progress = 0
               /\ jobs[j].status # "completed"
               /\ \A s \in PipelineStages : calls[j][s] = 0
               /\ Finished(j) =>
                     jobs[j].status = "failed" /\ jobs[j].error = UrlNotImplementedMsg
               /\ (jobs[j].status = "failed" /\ cancelled[j] = "no") =>
                     jobs[j].error = UrlNotImplementedMsg)
    /\ [][\A j \in DOMAIN jobs' :
            jobs'[j].type = "url" =>
               \/ <<StatusOf(j), jobs'[j].status>> \in
                     {<<"absent", "queued">>, <<"absent", "processing">>,
                      <<"queued", "queued">>, <<"queued", "processing">>,
                      <<"processing", "processing">>, <<"processing", "failed">>,
                      <<"failed", "failed">>}
               \/ /\ cancelled'[j] = "queued"
                  /\ <<StatusOf(j), jobs'[j].status>> = <<"queued", "failed">>]_vars
    /\ []<>(\A j \in Registered : jobs[j].type = "url" => jobs[j].status = "failed")

\* a url job that nobody cancelled has been through the worker and is failed
\* with the download message
C10_Witness ==
    \E j \in Registered :
       /\ jobs[j].type = "url"
       /\ cancelled[j] = "no"
       /\ Finished(j)
       /\ jobs[j].status = "failed"
       /\ jobs[j].error = UrlNotImplementedMsg
       /\ jobs[j].progress = 0

\* ------------------------------------------------------ read-only routes
\* ProcessorService.getStatusMessage of upload.ts (lines 369-390)
GetStatusMessage(job) ==
    CASE job.status = "queued" -> "Your request is in the processing queue"
      [] job.status = "processing" ->
            IF job.progress < 30 THEN "Preparing audio file for processing"
            ELSE IF job.progress < 70 THEN "Transcribing audio using AI"
            ELSE IF job.progress < 90 THEN "Generating summary and insights"
            ELSE "Finalizing results"
      [] job.status = "completed" -> "Processing completed successfully"
      [] job.status = "failed" ->
            IF job.error # Undefined THEN job.error
            ELSE "Processing failed due to an unknown error"
      [] OTHER -> "Unknown status"

\* GET /api/upload/status/:jobId (upload.ts lines 151-220): the answer
StatusRoute(c, user, id) ==
    IF ~Has(c.jobs, id) THEN [code |-> 404]
    ELSE IF c.jobs[id].userId # user THEN [code |-> 403]
    ELSE [code |-> 200, jobId |-> id,
          status |-> c.jobs[id].status,
          progress |-> c.jobs[id].progress,
          message |-> IF c.jobs[id].status = "completed"
                      THEN "Processing completed. Use /api/summaries to get results."
                      ELSE GetStatusMessage(c.jobs[id]),
          error |-> c.jobs[id].error]

\* getQueueStatus (processor.ts lines 407-419)
GetQueueStatus(c) ==
    [queueLength |-> Len(c.jobQueue),
     totalJobs |-> Cardinality(DOMAIN c.jobs),
     isProcessing |-> c.isProcessing,
     jobs |-> {[id |-> j, status |-> c.jobs[j].status,
                progress |-> c.jobs[j].progress,
                createdAt |-> c.jobs[j].createdAt] : j \in DOMAIN c.jobs}]

\* GET /api/upload/queue (upload.ts lines 304-330): any authenticated user
QueueRoute(c, user) == [code |-> 200, data |-> GetQueueStatus(c)]

\* C11 (as claimed): a user who does not own a job gets 403 from the status
\* and cancel routes, and the queue route shows that user nothing of the job.
C11_JobsVisibleToOwnerOnly ==
    \A u \in Users, j \in Registered :
       jobs[j].userId # u =>
          /\ StatusRoute(Ctx, u, j).code = 403
          /\ CancelRouteCode(Ctx, u, j) = 403
          /\ \A e \in QueueRoute(Ctx, u).data.jobs : e.id # j

\* ------------------------------------------------ helper functions alone
\* The helpers below are pure; FnSpec evaluates each of them on every input
\* of a bounded set and keeps the call in fn, the service staying as built.
ServiceVars == <<jobs, jobQueue, isProcessing, w, nextId, files, stored,
                 calls, raised, cancelled, summaries>>

\* Times are kept in hundredths of a second, which holds every product of
\* 60 by 0.7, 1.5 and 1.2 exactly.
BaseTime == 6000
\* Math.round on hundredths: the nearest integer, halves upwards
MathRound(h) == (h + 50) \div 100

\* variant: the url surcharge is added for file uploads
EstimateProcessingTimeSwapped(request) ==
    LET b1 == CASE request.options.detail = "brief" -> (BaseTime * 7) \div 10
                [] request.options.detail = "deep" -> (BaseTime * 15) \div 10
                [] OTHER -> BaseTime
        b2 == IF request.options.timestamps THEN (b1 * 12) \div 10 ELSE b1
        b3 == IF request.type = "file" THEN b2 + 3000 ELSE b2
    IN  MathRound(b3)

\* ProcessorService.estimateProcessingTime of upload.ts (lines 337-364)
EstimateProcessingTime(request) ==
    LET b1 == CASE request.options.detail = "brief" -> (BaseTime * 7) \div 10
                [] request.options.detail = "deep" -> (BaseTime * 15) \div 10
                [] OTHER -> BaseTime
        b2 == IF request.options.timestamps THEN (b1 * 12) \div 10 ELSE b1
        b3 == IF request.type = "url" THEN b2 + 3000 ELSE b2
    IN  MathRound(b3)

EvalEstimate ==
    /\ \E d \in DetailLevels, t \in BOOLEAN, ty \in UploadTypes :
          LET request == [type |-> ty, options |-> [detail |-> d, timestamps |-> t]]
          IN  fn' = [name |-> "estimateProcessingTime", request |-> request,
                     out |-> EstimateProcessingTime(request)]
    /\ UNCHANGED ServiceVars

\* C12: estimateProcessingTime returns round(60 * d * t) + u with d = 0.7, 1
\* or 1.5 by detail, t = 1.2 with timestamps and 1 without, u = 30 for a url
\* and 0 for a file; (standard, false, file) gives 60, (deep, true, url) 138.
C12_EstimatedTime ==
    fn.name = "estimateProcessingTime" =>
       LET d10 == CASE fn.request.options.detail = "brief" -> 7
                    [] fn.request.options.detail = "standard" -> 10
                    [] fn.request.options.detail = "deep" -> 15
           t10 == IF fn.request.options.timestamps THEN 12 ELSE 10
           u   == IF fn.request.type = "url" THEN 30 ELSE 0
           \* 60 * d * t in hundredths is 60 * d10 * t10; r is its rounding
           r   == CHOOSE k \in 0..200 :
                     200 * k - 100 <= 2 * 60 * d10 * t10 /\ 2 * 60 * d10 * t10 < 200 * k + 100
       IN  /\ fn.out = r + u
           /\ (fn.request = [type |-> "file",
                             options |-> [detail |-> "standard", timestamps |-> FALSE]])
                 => fn.out = 60
           /\ (fn.request = [type |-> "url",
                             options |-> [detail |-> "deep", timestamps |-> TRUE]])
                 => fn.out = 138

\* the estimate of a deep url upload with timestamps has been computed
C12_Witness ==
    /\ fn.name = "estimateProcessingTime"
    /\ fn.request.type = "url"
    /\ fn.request.options.detail = "deep"
    /\ fn.request.options.timestamps
    /\ fn.out = 138

\* --------------------------------------------- transcription confidence
MaxSegs == 3

\* avg_logprob of a returned segment, in tenths; a segment may carry none
LogProbs == {-7, -3, -1, 0}
RawSegments == [has : {TRUE}, avg_logprob : LogProbs] \cup {[has |-> FALSE]}
RawSegmentLists == UNION {[1..n -> RawSegments] : n \in 0..MaxSegs}

\* Math.exp on the values of LogProbs, in thousandths
MathExp(lp) ==
    CASE lp = 0 -> 1000
      [] lp = -1 -> 905
      [] lp = -3 -> 741
      [] lp = -7 -> 497

\* transcribeAudio, line 61: 'segment.avg_logprob ? Math.exp(...) : undefined'
\* (a missing avg_logprob and the number 0 are both falsy)
SegmentConfidence(segment) ==
    IF segment.has /\ segment.avg_logprob # 0
    THEN [defined |-> TRUE, v |-> MathExp(segment.avg_logprob)]
    ELSE [defined |-> FALSE]

\* transcribeAudio, lines 57-62: the segments of the response
MapSegments(raw) == [i \in 1..Len(raw) |-> [confidence |-> SegmentConfidence(raw[i])]]

RECURSIVE SumConf(_)
\* confidences.reduce((sum, conf) => sum + conf, 0)
SumConf(confidences) ==
    IF Len(confidences) = 0 THEN 0
    ELSE Head(confidences).v + SumConf(Tail(confidences))

RECURSIVE FilterDefined(_)
\* .map(segment => segment.confidence).filter(c => c !== undefined)
FilterDefined(segments) ==
    IF Len(segments) = 0 THEN <<>>
    ELSE IF Head(segments).confidence.defined
         THEN <<Head(segments).confidence>> \o FilterDefined(Tail(segments))
         ELSE FilterDefined(Tail(segments))

\* the default confidence 0.8, in hundredths
DefaultConfidence == 80

\* variant: the sum of the defined confidences is divided by the number of
\* all segments
CalculateOverallConfidenceAll(segments) ==
    IF Len(segments) = 0 THEN DefaultConfidence
    ELSE LET confidences == FilterDefined(segments)
         IN  IF Len(confidences) = 0 THEN DefaultConfidence
             ELSE (SumConf(confidences) + 5 * Len(segments))
                     \div (10 * Len(segments))

\* calculateOverallConfidence (lines 256-267), in hundredths:
\* Math.round(average * 100) / 100 with average = sum / n in thousandths
CalculateOverallConfidence(segments) ==
    IF Len(segments) = 0 THEN DefaultConfidence
    ELSE LET confidences == FilterDefined(segments)
         IN  IF Len(confidences) = 0 THEN DefaultConfidence
             ELSE (SumConf(confidences) + 5 * Len(confidences))
                     \div (10 * Len(confidences))

EvalConfidence ==
    /\ \E raw \in RawSegmentLists :
          fn' = [name |-> "calculateOverallConfidence", raw |-> raw,
                 segments |-> MapSegments(raw),
                 out |-> CalculateOverallConfidence(MapSegments(raw))]
    /\ UNCHANGED ServiceVars

\* the positions of the segments that carry a confidence
Available(segments) == {i \in 1..Len(segments) : segments[i].confidence.defined}

RECURSIVE SumOver(_, _)
SumOver(segments, I) ==
    IF I = {} THEN 0
    ELSE LET i == CHOOSE k \in I : TRUE
         IN  segments[i].confidence.v + SumOver(segments, I \ {i})

\* C19: with zero segments, or with segments that all lack a confidence, the
\* overall confidence is the default 0.8; otherwise it is the average of the
\* available segment confidences rounded to two decimals; it is never zero by
\* default.
C19_OverallConfidence ==
    fn.name = "calculateOverallConfidence" =>
       LET A == Available(fn.segments)
           n == Cardinality(A)
           S == SumOver(fn.segments, A)
       IN  IF n = 0
           THEN fn.out = 80
           ELSE \* out (hundredths) is the hundredth nearest to S / n thousandths
                /\ 10 * n * fn.out - 5 * n <= S
                /\ S < 10 * n * fn.out + 5 * n
                /\ fn.out > 0

\* a response with a segment that lacks a confidence next to two that carry
\* one: the average is taken over the two
C19_Witness ==
    /\ fn.name = "calculateOverallConfidence"
    /\ Len(fn.segments) = 3
    /\ Cardinality(Available(fn.segments)) = 2
    /\ fn.raw[1] = [has |-> TRUE, avg_logprob |-> 0]
    /\ fn.out = 70

\* ----------------------------------------- helper functions, continued
EvalSummary ==
    /\ \E options \in SummaryOptions, completion \in Completions :
          LET r == GenerateSummary(options, completion)
          IN  fn' = [name |-> "generateSummary", options |-> options,
                     completion |-> completion, out |-> r,
                     final |-> IF r.ok THEN FinalSummary("u1", 1, r.response)
                               ELSE NoCall]
    /\ UNCHANGED ServiceVars

\* ---------------------------------------------------------- generateTitle
MaxFirst == 62

\* a string is a sequence of characters; Chars(n, ch) is ch repeated n times
Chars(n, ch) == [i \in 1..n |-> ch]

\* the overviews: a first sentence of letters, alone or followed by '.' and
\* more text
Overviews ==
    {Chars(n, "a") : n \in 0..MaxFirst}
       \cup {Chars(n, "a") \o <<".">> \o rest :
                n \in 0..MaxFirst, rest \in {<<>>, <<" ", "b", ".">>}}

\* overview.includes('.')
Includes(str, ch) == \E i \in 1..Len(str) : str[i] = ch

\* overview.split('.')[0]: the text before the first '.'
SplitFirst(str) ==
    IF Includes(str, ".")
    THEN SubSeq(str, 1, (CHOOSE i \in 1..Len(str) :
                            str[i] = "." /\ \A k \in 1..(i - 1) : str[k] # ".") - 1)
    ELSE str

\* str.substring(0, n)
Substring(str, n) == SubSeq(str, 1, IF n < Len(str) THEN n ELSE Len(str))

Ellipsis == <<".", ".", ".">>

\* generateTitle (processor.ts lines 373-380)
GenerateTitle(overview) ==
    LET firstSentence == SplitFirst(overview)
    IN  IF Len(firstSentence) > 60
        THEN Substring(firstSentence, 57) \o Ellipsis
        ELSE firstSentence \o (IF Includes(overview, ".") THEN <<>> ELSE Ellipsis)

EvalTitle ==
    /\ \E overview \in Overviews :
          fn' = [name |-> "generateTitle", overview |-> overview,
                 out |-> GenerateTitle(overview)]
    /\ UNCHANGED ServiceVars

FnNext ==
    \/ EvalEstimate
    \/ EvalConfidence
    \/ EvalSummary
    \/ EvalTitle

FnSpec == Init /\ [][FnNext]_vars

\* the chapters the service response carries
ResponseChapters(completion) ==
    IF completion.content.kind = "object" /\ completion.content.chapters.has
    THEN completion.content.chapters.list
    ELSE <<>>

\* C18: for every detail level and every response, with timestamps false the
\* assembled Summary holds no chapter (its chapters field is left undefined,
\* so no chapter of the response appears in it); with timestamps true it
\* holds the chapters of the response, one for one.
C18_ChaptersOnlyWithTimestamps ==
    (fn.name = "generateSummary" /\ fn.out.ok) =>
       /\ ~fn.options.timestamps => fn.final.chapters = [defined |-> FALSE]
       /\ fn.options.timestamps =>
             /\ fn.final.chapters.defined
             /\ Len(fn.final.chapters.list) = Len(ResponseChapters(fn.completion))
             /\ \A i \in 1..Len(fn.final.chapters.list) :
                   /\ fn.final.chapters.list[i].start
                         = ResponseChapters(fn.completion)[i].start
                   /\ fn.final.chapters.list[i].title
                         \in {ResponseChapters(fn.completion)[i].title, ""}

\* a brief summary without timestamps was assembled from a response that
\* carries two chapters
C18_Witness ==
    /\ fn.name = "generateSummary"
    /\ fn.out.ok
    /\ fn.options = [detail |-> "brief", timestamps |-> FALSE]
    /\ Len(ResponseChapters(fn.completion)) = 2
    /\ fn.final.chapters = [defined |-> FALSE]

\* ------------------------------------------------- claims on the pipeline
\* C13: a Summary is handed to storeSummary only for a job whose status is
\* not 'failed' at that moment, and every failed job carries a non-empty
\* error string, also when cancelJob is called during processing.
C13_NoHandoffForFailedJob ==
    /\ \A i \in 1..Len(stored) : stored[i].jobStatus # "failed"
    /\ \A j \in Registered :
          jobs[j].status = "failed" => jobs[j].error \notin {Undefined, ""}

\* C14: once a job is 'completed', no step that leaves it registered changes
\* its status, progress, error or completedAt, and the status route answers
\* every caller as before.
C14_CompletedIsFinal ==
    [][\A j \in JobIds :
          (Has(jobs, j) /\ jobs[j].status = "completed" /\ Has(jobs', j)) =>
             /\ jobs'[j].status = "completed"
             /\ jobs'[j].progress = jobs[j].progress
             /\ jobs'[j].error = jobs[j].error
             /\ jobs'[j].completedAt = jobs[j].completedAt
             /\ \A u \in Users :
                   StatusRoute([jobs |-> jobs'], u, j) = StatusRoute([jobs |-> jobs], u, j)]_vars

\* a completed job whose owner is answered 200 while the worker is in the
\* pipeline of another job
C14_Witness ==
    \E j \in Registered :
       /\ jobs[j].status = "completed"
       /\ StatusRoute(Ctx, jobs[j].userId, j).code = 200
       /\ StatusRoute(Ctx, jobs[j].userId, j).progress = 100
       /\ w.pc \in Stages
       /\ w.job # j

\* C15: when the normalization tool fails the job does not fail: processAudio
\* returns the input path, progress becomes 50 and transcription is invoked
\* on the original audio.
C15_NormalizeSoftFail ==
    [][(/\ w.pc = "normalize"
        /\ Has(jobs, w.job)
        /\ Apply(AfterNormalize(Ctx, w.job, FALSE))
        /\ WorkerFrame)
          => /\ ProcessAudio(FALSE) = "in"
             /\ jobs'[w.job].status = jobs[w.job].status
             /\ jobs'[w.job].error = jobs[w.job].error
             /\ jobs'[w.job].progress = 50
             /\ raised' = raised
             /\ w'.pc = "transcribe"
             /\ ~w'.processed
             /\ files' = files
             /\ calls'[w.job]["transcribe"] = calls[w.job]["transcribe"] + 1]_vars

\* the worker awaits the transcription of the original audio of a job that
\* is still 'processing' at progress 50
C15_Witness ==
    /\ w.pc = "transcribe"
    /\ ~w.processed
    /\ Has(jobs, w.job)
    /\ w.job \notin files
    /\ jobs[w.job].status = "processing"
    /\ jobs[w.job].progress = 50
    /\ calls[w.job]["transcribe"] = 1

\* C16: if the probe yields no parsed metadata, because the tool errors or
\* because its output holds no parsable duration, the job ends 'failed' with
\* progress below 30 and normalization is never invoked for it.
C16_ProbeFailureFailsJob ==
    [][\A out \in {"error", "noduration"} :
          (/\ w.pc = "probe"
           /\ Has(jobs, w.job)
           /\ Apply(AfterProbe(Ctx, w.job, out))
           /\ WorkerFrame)
             => /\ jobs'[w.job].status = "failed"
                /\ jobs'[w.job].progress < 30
                /\ calls'[w.job]["normalize"] = 0
                /\ w'.pc = "loop"]_vars

\* the contents that are empty, not JSON, or JSON other than an object
MalformedContents == {[kind |-> k] : k \in {"empty", "notjson", "null", "scalar"}}

\* C17: when the service returns content that is empty, not parseable JSON,
\* or JSON that is not an object, generateSummary fails and the job ends
\* 'failed'; no Summary is handed on for it.
C17_MalformedResponseFailsJob ==
    [][\A options \in SummaryOptions, content \in MalformedContents :
          (/\ w.pc = "summarize"
           /\ Has(jobs, w.job)
           /\ Apply(AfterSummarize(Ctx, w.job,
                       GenerateSummary(options, [error |-> FALSE, content |-> content]).ok))
           /\ WorkerFrame)
             => /\ jobs'[w.job].status = "failed"
                /\ stored' = stored]_vars

\* GET /api/summaries (summaries route, lines 72-73): the caller's summaries
ListSummaries(c, user) == {x \in c.summaries : x.userId = user}

\* C20: after a job is 'completed', the summaries store read by the
\* summaries routes holds a Summary with the job's id and its owner's id.
C20_CompletedSummaryIsStored ==
    \A j \in Registered :
       jobs[j].status = "completed" =>
          \E x \in ListSummaries(Ctx, jobs[j].userId) : x.jobId = j

\* ------------------------------------------------------ claims on retries
\* the summaries handed to storeSummary for job id
StoredFor(id) == {i \in 1..Len(stored) : stored[i].jobId = id}

\* C21: each id is dequeued at most once (the queue holds no id twice and an
\* id that has left the queue never enters it again), each stage is invoked
\* at most once per job, at most one Summary is handed to storage per job,
\* and a failed job never returns to 'queued' or 'processing'.
C21_NoRetry ==
    /\ [](\A i, k \in 1..Len(jobQueue) : i # k => jobQueue[i] # jobQueue[k])
    /\ [](\A j \in JobIds :
            /\ \A st \in Stages : calls[j][st] <= 1
            /\ Cardinality(StoredFor(j)) <= 1)
    /\ [][\A j \in JobIds :
            /\ (j <= nextId /\ ~InQueue(j)) => ~InQueue(j)'
            /\ (StatusOf(j) = "failed" /\ Has(jobs', j)) =>
                  jobs'[j].status \notin {"queued", "processing"}]_vars

\* a job whose transcription failed: the stage was invoked once, the job is
\* failed, out of the queue, and the worker has gone idle without it
C21_Witness ==
    \E j \in Registered :
       /\ raised[j] = TranscriptionFailedMsg
       /\ jobs[j].status = "failed"
       /\ calls[j]["transcribe"] = 1
       /\ StoredFor(j) = {}
       /\ ~InQueue(j)
       /\ w.pc = "idle"

\* ------------------------------------------------- claims on stage order
\* the stages of processJob in program order
StageOrder == <<"download", "probe", "normalize", "transcribe", "summarize", "store">>
StageIndex(st) == CHOOSE i \in 1..Len(StageOrder) : StageOrder[i] = st

\* the progress processJob has written when it awaits stage st
ProgressAt(st, type) ==
    CASE st = "download" -> 0
      [] st = "probe" -> IF type = "file" THEN 10 ELSE 20
      [] st = "normalize" -> 30
      [] st = "transcribe" -> 50
      [] st = "summarize" -> 70
      [] st = "store" -> 90

\* the steps of the progress sequence 0, (10 | 20), 30, 50, 70, 90, 100
ProgressSteps(type) ==
    {<<0, IF type = "file" THEN 10 ELSE 20>>, <<10, 30>>, <<20, 30>>,
     <<30, 50>>, <<50, 70>>, <<70, 90>>, <<90, 100>>}

\* C22: within a job the stages run in the order acquisition, probe,
\* normalization, transcription, summarization, handoff, each invoked only
\* when the previous one has resolved (the awaited stage is the last one
\* invoked and no later stage has been invoked), and the job's progress
\* moves along 0, (10 for file | 20 for url), 30, 50, 70, 90, 100.
C22_StagesInOrder ==
    /\ [](\A j \in JobIds : \A i \in 3..Len(StageOrder) :
            calls[j][StageOrder[i]] <= calls[j][StageOrder[i - 1]])
    /\ [](w.pc \in Stages =>
            /\ calls[w.job][w.pc] = 1
            /\ \A i \in 1..Len(StageOrder) :
                  i > StageIndex(w.pc) => calls[w.job][StageOrder[i]] = 0
            /\ Has(jobs, w.job) =>
                  jobs[w.job].progress = ProgressAt(w.pc, jobs[w.job].type))
    /\ [](\A j \in Registered : jobs[j].type = "url" => calls[j]["probe"] <= calls[j]["download"])
    /\ [][\A j \in JobIds :
            (Has(jobs, j) /\ Has(jobs', j) /\ jobs'[j].progress # jobs[j].progress) =>
               <<jobs[j].progress, jobs'[j].progress>> \in ProgressSteps(jobs[j].type)]_vars

\* a file job went through every stage once and ended at progress 100
C22_Witness ==
    \E j \in Registered :
       /\ jobs[j].type = "file"
       /\ jobs[j].progress = 100
       /\ \A st \in PipelineStages : calls[j][st] = 1
       /\ calls[j]["download"] = 0

\* -------------------------------------------------- claims on queue order
\* the worker is inside the pipeline of job id
InFlight(id) == w.pc \in Stages /\ w.job = id

C24_EveryJobTerminates ==
    /\ [](w.pc = "idle" =>
            /\ Len(jobQueue) = 0
            /\ ~isProcessing
            /\ \A j \in Registered : jobs[j].status \in Terminal)
    /\ [][(w.pc = "loop" /\ Len(jobQueue) > 0 /\ w'.pc # "loop" /\ jobQueue' # jobQueue)
             => (Len(jobQueue') = Len(jobQueue) - 1 /\ w'.pc # "idle")]_vars
    /\ []<>(\A j \in Registered : jobs[j].status \in Terminal)

\* the worker has finished the only job it had and is about to test the
\* queue again, and a job created meanwhile waits there
C24_Witness ==
    \E a, b \in Registered :
       /\ Finished(a)
       /\ jobs[a].status = "completed"
       /\ w.pc = "loop"
       /\ jobQueue = <<b>>
       /\ jobs[b].status = "queued"
       /\ isProcessing

\* C25: a job is 'completed' only with progress 100 and a failed job never
\* has progress 100: progress 100 and status 'completed' are written
\* together, in the same step.
C25_CompletedIffProgress100 ==
    /\ [](\A j \in Registered :
            (jobs[j].status = "completed") <=> (jobs[j].progress = 100))
    /\ [][\A j \in JobIds :
            (Has(jobs, j) /\ Has(jobs', j)) =>
               ((jobs[j].progress # 100 /\ jobs'[j].progress = 100)
                  <=> (jobs[j].status # "completed" /\ jobs'[j].status = "completed"))]_vars

\* a job cancelled while its summary was being stored: failed at progress 90
C25_Witness ==
    \E j \in Registered :
       /\ jobs[j].status = "failed"
       /\ cancelled[j] = "processing"
       /\ jobs[j].progress = 90
       /\ InFlight(j)
       /\ w.pc = "store"

\* ------------------------------------------------------- claims on titles
\* the title ends with the ellipsis marker
EndsWithEllipsis(title) ==
    Len(title) >= 3 /\ SubSeq(title, Len(title) - 2, Len(title)) = Ellipsis

\* C26: generateTitle returns the first sentence of the overview; the title
\* carries '...' only when the first sentence was cut, and it is never longer
\* than 60 characters, also for an overview without any '.'.
C26_TitleBounded ==
    fn.name = "generateTitle" =>
       LET first == SplitFirst(fn.overview)
       IN  /\ Len(fn.out) <= 60
           /\ IF EndsWithEllipsis(fn.out)
              THEN /\ Len(first) > Len(fn.out) - 3
                   /\ SubSeq(fn.out, 1, Len(fn.out) - 3) = SubSeq(first, 1, Len(fn.out) - 3)
              ELSE fn.out = first

\* ------------------------------------------------- claims on cancelJob
\* C27: an accepted cancelJob changes only the status and the error of the
\* job it names and takes only that id out of the queue; it writes no
\* progress, no other job's record and not the isProcessing flag; and the
\* progress of a job changes only in a step of the worker processing it.
C27_CancelFrame ==
    /\ [][\A u \in Users, id \in JobIds :
            (/\ CancelRouteCode(Ctx, u, id) = 200
             /\ Apply(CancelJob(Ctx, id).c)
             /\ cancelled' = [cancelled EXCEPT ![id] = jobs[id].status])
               => /\ DOMAIN jobs' = DOMAIN jobs
                  /\ \A j \in DOMAIN jobs \ {id} : jobs'[j] = jobs[j]
                  /\ \A f \in DOMAIN jobs[id] \ {"status", "error"} :
                        jobs'[id][f] = jobs[id][f]
                  /\ jobs'[id].status = "failed"
                  /\ jobs'[id].error = CancelledMsg
                  /\ isProcessing' = isProcessing
                  /\ w' = w
                  /\ ~InQueue(id)'
                  /\ \A j \in JobIds \ {id} : InQueue(j)' <=> InQueue(j)
                  /\ Len(jobQueue') >= Len(jobQueue) - 1]_vars
    /\ [][\A j \in JobIds :
            (Has(jobs, j) /\ Has(jobs', j) /\ jobs'[j].progress # jobs[j].progress)
               => (InFlight(j) \/ InFlight(j)')]_vars

\* a job cancelled during its transcription keeps the progress 50 the
\* worker wrote, and the worker is still on it
C27_Witness ==
    \E j \in Registered :
       /\ cancelled[j] = "processing"
       /\ jobs[j].status = "failed"
       /\ jobs[j].error = CancelledMsg
       /\ jobs[j].progress = 50
       /\ InFlight(j)
       /\ w.pc = "transcribe"
       /\ isProcessing

\* ------------------------------------------ claims on the registry state
\* C28: between the synchronous steps of the service, a non-empty queue
\* implies isProcessing, and isProcessing false implies an empty queue and
\* no job with status 'processing'.
C28_QueueImpliesProcessing ==
    /\ Len(jobQueue) > 0 => isProcessing
    /\ ~isProcessing => (Len(jobQueue) = 0 /\ Processing = {})

\* the worker has drained the queue and reset the flag: every registered
\* job went through it
C28_Witness ==
    /\ ~isProcessing
    /\ Cardinality(Registered) = MaxJobs
    /\ \A j \in Registered : Finished(j) /\ jobs[j].status \in Terminal

\* C29: every id in the queue occurs there once and names a registered job
\* with status 'queued', and every registered job with status 'queued' has
\* its id in the queue.
C29_QueueMatchesRegistry ==
    /\ \A i, k \in 1..Len(jobQueue) : i # k => jobQueue[i] # jobQueue[k]
    /\ \A i \in 1..Len(jobQueue) :
          Has(jobs, jobQueue[i]) /\ jobs[jobQueue[i]].status = "queued"
    /\ \A j \in Registered : jobs[j].status = "queued" => InQueue(j)

\* C30: a completed job has no error message, so the status route returns
\* no error field for it, also when cancelJob was called during its
\* processing.
C30_CompletedHasNoError ==
    \A j \in Registered :
       jobs[j].status = "completed" =>
          /\ jobs[j].error = Undefined
          /\ StatusRoute(Ctx, jobs[j].userId, j).error = Undefined
====
